---- MODULE Spec2Model ----
(***************************************************************************)
(* A model of the angle-grinder query parser (src/src/lang.rs).            *)
(*                                                                         *)
(* The input is a sequence of one-character strings.  A parser rule is an  *)
(* operator rule(s, i) taking the whole input s and the byte offset i      *)
(* (0-based, as LocatedSpan.offset) at which it starts, and returning a    *)
(* result record:                                                          *)
(*   ok     - TRUE for Ok((rest, value))                                   *)
(*   pos    - offset of the remaining input (Ok) or of the error (Err)     *)
(*   val    - the produced value                                           *)
(*   sev    - "Ok", "Error" (recoverable, nom Err::Error), "Failure"       *)
(*            (fatal, nom Err::Failure) or "Panic" (a failed unwrap)       *)
(*   codes  - the error chain, innermost first (nom verbose error list)    *)
(*   raised - the fatal codes raised by any rule run so far in this parse, *)
(*            kept for observation only (no rule reads it)                 *)
(* The combinators follow nom 4 with a CompleteStr input: a short input is *)
(* an Error, never Incomplete.                                             *)
(***************************************************************************)
EXTENDS Integers, Sequences, FiniteSets, TLC

VARIABLES input, typed, phase, rule, out

vars == <<input, typed, phase, rule, out>>

----------------------------------------------------------------------------
(* Characters *)

LowerChars == {"a","b","c","d","e","f","g","h","i","j","k","l","m",
               "n","o","p","q","r","s","t","u","v","w","x","y","z"}

UpperChars == {"A","B","C","D","E","F","G","H","I","J","K","L","M",
               "N","O","P","Q","R","S","T","U","V","W","X","Y","Z"}

DigitChars == {"0","1","2","3","4","5","6","7","8","9"}

AlphaChars == LowerChars \cup UpperChars

PunctChars == {" ", "\t", "\n", "\r", "\"", "'", "\\", "(", ")", ",", "|",
               "=", "!", "<", ">", "*", "-", "_", ":", "/", ".", "+", "@",
               "#", "$", "%", "^", "[", "]"}

AllChars == AlphaChars \cup DigitChars \cup PunctChars

\* nom sp (used by ws!): spaces, tabs, carriage returns and newlines
SpChars == {" ", "\t", "\r", "\n"}

\* nom space0: spaces and tabs only
SpaceChars == {" ", "\t"}

is_ident == AlphaChars \cup DigitChars \cup {"_"}

starts_ident == AlphaChars \cup {"_"}

is_keyword == AlphaChars \cup DigitChars \cup
              {"-", "_", ":", "/", ".", "+", "@", "#", "$", "%", "^", "*"}

not_escape_sq == AllChars \ {"\\", "'"}

not_escape_dq == AllChars \ {"\\", "\""}

is_digit_char == DigitChars

----------------------------------------------------------------------------
(* Results *)

Nil == <<>>

Ok(p, v) == [ok |-> TRUE, pos |-> p, val |-> v, sev |-> "Ok",
             codes |-> <<>>, raised |-> {}]

Error(p, kind) == [ok |-> FALSE, pos |-> p, val |-> Nil, sev |-> "Error",
                   codes |-> <<kind>>, raised |-> {}]

\* carry over the fatal codes seen before r was computed
Raise(r, rs) == [r EXCEPT !.raised = @ \cup rs]

\* map!: change the value of an Ok result
WithVal(r, v) == IF r.ok THEN [r EXCEPT !.val = v] ELSE r

\* resume at another offset (the trailing whitespace of ws!)
WithPos(r, p) == IF r.ok THEN [r EXCEPT !.pos = p] ELSE r

IsFailure(r) == ~r.ok /\ r.sev = "Failure"

IsError(r) == ~r.ok /\ r.sev = "Error"

----------------------------------------------------------------------------
(* nom primitives *)

RECURSIVE TakeWhile(_, _, _)
\* the offset after the longest run of characters of set cs starting at i
TakeWhile(s, i, cs) ==
    IF i < Len(s) /\ s[i + 1] \in cs THEN TakeWhile(s, i + 1, cs) ELSE i

Slice(s, i, j) == SubSeq(s, i + 1, j)

sp(s, i) == TakeWhile(s, i, SpChars)

space0(s, i) == TakeWhile(s, i, SpaceChars)

\* take_while!: never fails
take_while(s, i, cs) ==
    LET j == TakeWhile(s, i, cs) IN Ok(j, Slice(s, i, j))

\* take_while1!, digit1, alpha1, multispace: at least one character
take_while1(s, i, cs, kind) ==
    LET j == TakeWhile(s, i, cs)
    IN  IF j = i THEN Error(i, kind) ELSE Ok(j, Slice(s, i, j))

\* tag!: the input is shorter than the tag and a prefix of it: Eof (complete
\* input); it differs: Tag
tag(s, i, t) ==
    LET n == Len(t)
        m == IF Len(s) - i < n THEN Len(s) - i ELSE n
    IN  IF Slice(s, i, i + m) # SubSeq(t, 1, m) THEN Error(i, "Tag")
        ELSE IF m < n THEN Error(i, "Eof")
        ELSE Ok(i + n, t)

\* opt!: an Error becomes None at the offset opt! started; a Failure passes
Opt(r, i) ==
    IF r.ok THEN [r EXCEPT !.val = <<r.val>>]
    ELSE IF r.sev = "Error" THEN Raise(Ok(i, Nil), r.raised)
    ELSE r

\* one step of alt!: the next alternative r2 is tried only after an Error
Alt(r1, r2) ==
    IF r1.ok \/ r1.sev # "Error" THEN r1 ELSE Raise(r2, r1.raised)

\* the end of alt!
AltEnd(i) == Error(i, "Alt")

\* one step of do_parse!, tuple!, preceded!, ...: r2 runs only after r1 succeeded
Then(r1, r2) == IF r1.ok THEN Raise(r2, r1.raised) ELSE r1

\* return_error!: any error of the child becomes a Failure with code appended
ReturnError(r, i, code) ==
    IF r.ok THEN r
    ELSE [ok |-> FALSE, pos |-> i, val |-> Nil, sev |-> "Failure",
          codes |-> Append(r.codes, code), raised |-> r.raised \cup {code}]

\* add_return_error!: the code is appended, the severity is kept
AddReturnError(r, code) ==
    IF r.ok THEN r ELSE [r EXCEPT !.codes = Append(@, code)]

\* not!: succeeds, consuming nothing, when the child fails with an Error
Not(r, i) ==
    IF IsFailure(r) THEN r
    ELSE IF r.ok THEN Raise(Error(i, "Not"), r.raised)
    ELSE Raise(Ok(i, Nil), r.raised)

\* peek!: the child's value without consuming
Peek(r, i) == WithPos(r, i)

\* ws!: the trailing whitespace is consumed after a success
Ws(s, r) == IF r.ok THEN [r EXCEPT !.pos = sp(s, r.pos)] ELSE r

\* with_pos!: wrap the value in a Positioned starting at start
\* with_pos! with the two offsets exchanged
Positioned_exchanged(r, start) ==
    IF r.ok THEN [r EXCEPT !.val = [start_pos |-> r.pos, end_pos |-> start,
                                     value |-> r.val]]
    ELSE r

Positioned(r, start) ==
    IF r.ok THEN [r EXCEPT !.val = [start_pos |-> start, end_pos |-> r.pos,
                                     value |-> r.val]]
    ELSE r

----------------------------------------------------------------------------
(* The literals of the tag!() calls, as character sequences *)

T == [
    json |-> <<"j", "s", "o", "n">>,
    from |-> <<"f", "r", "o", "m">>,
    where |-> <<"w", "h", "e", "r", "e">>,
    limit |-> <<"l", "i", "m", "i", "t">>,
    total |-> <<"t", "o", "t", "a", "l">>,
    as |-> <<"a", "s">>,
    parse |-> <<"p", "a", "r", "s", "e">>,
    nodrop |-> <<"n", "o", "d", "r", "o", "p">>,
    fields |-> <<"f", "i", "e", "l", "d", "s">>,
    only |-> <<"o", "n", "l", "y">>,
    include |-> <<"i", "n", "c", "l", "u", "d", "e">>,
    except |-> <<"e", "x", "c", "e", "p", "t">>,
    drop |-> <<"d", "r", "o", "p">>,
    count |-> <<"c", "o", "u", "n", "t">>,
    avg |-> <<"a", "v", "g">>,
    average |-> <<"a", "v", "e", "r", "a", "g", "e">>,
    count_distinct |-> <<"c", "o", "u", "n", "t", "_", "d", "i", "s", "t", "i", "n", "c", "t">>,
    sum |-> <<"s", "u", "m">>,
    pct |-> <<"p", "c", "t">>,
    percentile |-> <<"p", "e", "r", "c", "e", "n", "t", "i", "l", "e">>,
    p |-> <<"p">>,
    by |-> <<"b", "y">>,
    asc |-> <<"a", "s", "c">>,
    ascending |-> <<"a", "s", "c", "e", "n", "d", "i", "n", "g">>,
    desc |-> <<"d", "e", "s", "c">>,
    dsc |-> <<"d", "s", "c">>,
    descending |-> <<"d", "e", "s", "c", "e", "n", "d", "i", "n", "g">>,
    sort |-> <<"s", "o", "r", "t">>,
    a |-> <<"a">>,
    dq |-> <<"\"">>,
    sq |-> <<"'">>,
    lparen |-> <<"(">>,
    rparen |-> <<")">>,
    comma |-> <<",">>,
    pipe |-> <<"|">>,
    dot |-> <<".">>,
    eq |-> <<"=", "=">>,
    lte |-> <<"<", "=">>,
    gte |-> <<">", "=">>,
    neq |-> <<"!", "=">>,
    gt |-> <<">">>,
    lt |-> <<"<">>,
    bang |-> <<"!">>,
    plus |-> <<"+">>,
    minus |-> <<"-">>]

----------------------------------------------------------------------------
(* Quoted strings *)

\* Rule(r, s, i) is the parser named r of the grammar, applied to the text s
\* at offset i; the parsers of the grammar call one another through it
RECURSIVE Rule(_, _, _)

RECURSIVE Escaped(_, _, _, _)
\* escaped!(take_while1!(normal), '\\', anychar) from offset i; start is the
\* offset the combinator was applied at.  A run of normal characters and
\* backslash-escaped characters is consumed; a backslash that ends the
\* input is an error; any other character ends the run.
Escaped(s, start, i, normal) ==
    IF i >= Len(s) THEN Ok(i, Slice(s, start, i))
    ELSE LET j == TakeWhile(s, i, normal)
         IN  IF j > i
             THEN IF j >= Len(s) THEN Ok(Len(s), Slice(s, start, Len(s)))
                  ELSE Escaped(s, start, j, normal)
             ELSE IF s[i + 1] = "\\"
             THEN IF i + 1 >= Len(s)
                  THEN [Error(start, "Eof") EXCEPT !.codes = <<"Eof", "Escaped">>]
                  ELSE IF i + 2 >= Len(s)
                       THEN Ok(Len(s), Slice(s, start, Len(s)))
                       ELSE Escaped(s, start, i + 2, normal)
             ELSE Ok(i, Slice(s, start, i))

double_quoted_string(s, i) ==
    LET open == tag(s, i, T.dq)
        body == Escaped(s, open.pos, open.pos, not_escape_dq)
        close == ReturnError(tag(s, body.pos, T.dq), body.pos,
                             "UnterminatedDoubleQuotedString")
    IN  IF ~open.ok THEN AddReturnError(open, "StartOfError")
        ELSE IF ~body.ok THEN AddReturnError(body, "StartOfError")
        ELSE IF ~close.ok THEN close
        ELSE WithVal(close, body.val)

single_quoted_string(s, i) ==
    LET open == tag(s, i, T.sq)
        body == Escaped(s, open.pos, open.pos, not_escape_sq)
        close == ReturnError(tag(s, body.pos, T.sq), body.pos,
                             "UnterminatedSingleQuotedString")
    IN  IF ~open.ok THEN AddReturnError(open, "StartOfError")
        ELSE IF ~body.ok THEN AddReturnError(body, "StartOfError")
        ELSE IF ~close.ok THEN close
        ELSE WithVal(close, body.val)

quoted_string(s, i) ==
    Alt(Rule("double_quoted_string", s, i),
        Alt(Rule("single_quoted_string", s, i), AltEnd(i)))

----------------------------------------------------------------------------
(* Lexical primitives and expressions *)

RECURSIVE DigitsToNat(_)
\* the number a run of decimal digits denotes
DigitsToNat(ds) ==
    IF ds = <<>> THEN 0
    ELSE 10 * DigitsToNat(SubSeq(ds, 1, Len(ds) - 1))
         + (CHOOSE d \in 0..9 : ToString(d) = ds[Len(ds)])

\* data::Value::from_string on a run of digits: an integer
from_string(ds) == [vt |-> "Int", n |-> DigitsToNat(ds)]

digit1(s, i) == take_while1(s, i, DigitChars, "Digit")

alpha1(s, i) == take_while1(s, i, AlphaChars, "Alpha")

multispace(s, i) == take_while1(s, i, SpChars, "MultiSpace")

value(s, i) ==
    LET i1 == sp(s, i)
        q == Rule("quoted_string", s, i1)
        d == digit1(s, i1)
    IN  Ws(s, Alt(WithVal(q, [vt |-> "Str", str |-> q.val]),
                  Alt(WithVal(d, from_string(d.val)), AltEnd(i1))))

ident(s, i) ==
    LET start == take_while1(s, i, starts_ident, "TakeWhile1")
        rest == Then(start, take_while(s, start.pos, is_ident))
    IN  WithVal(rest, start.val \o rest.val)

keyword(s, i) ==
    LET start == take_while1(s, i, is_keyword, "TakeWhile1")
        rest == Then(start, take_while(s, start.pos, is_keyword))
    IN  WithVal(rest, start.val \o rest.val)

\* comparison operators with the one-character tags tried first
comp_op_short_first(s, i) ==
    LET i1 == sp(s, i)
    IN  Ws(s, Alt(WithVal(tag(s, i1, T.gt), "Gt"),
              Alt(WithVal(tag(s, i1, T.lt), "Lt"),
              Alt(WithVal(tag(s, i1, T.eq), "Eq"),
              Alt(WithVal(tag(s, i1, T.lte), "Lte"),
              Alt(WithVal(tag(s, i1, T.gte), "Gte"),
              Alt(WithVal(tag(s, i1, T.neq), "Neq"), AltEnd(i1))))))))

comp_op(s, i) ==
    LET i1 == sp(s, i)
    IN  Ws(s, Alt(WithVal(tag(s, i1, T.eq), "Eq"),
              Alt(WithVal(tag(s, i1, T.lte), "Lte"),
              Alt(WithVal(tag(s, i1, T.gte), "Gte"),
              Alt(WithVal(tag(s, i1, T.neq), "Neq"),
              Alt(WithVal(tag(s, i1, T.gt), "Gt"),
              Alt(WithVal(tag(s, i1, T.lt), "Lt"), AltEnd(i1))))))))

unary_op(s, i) ==
    LET i1 == sp(s, i)
    IN  Ws(s, Alt(WithVal(tag(s, i1, T.bang), "Not"), AltEnd(i1)))


\* The closing return_error! leaves e_ident at once with the Failure; the
\* other errors of the parenthesised alternative pass add_return_error!.
e_ident(s, i) ==
    LET i1 == sp(s, i)
        id == Rule("ident", s, i1)
        v == Rule("value", s, i1)
        open == tag(s, i1, T.lparen)
        e == Then(open, Rule("expr", s, open.pos))
        close == Then(e, ReturnError(tag(s, e.pos, T.rparen), e.pos,
                                     "MissingParen"))
        paren == IF IsFailure(close) /\ e.ok THEN close
                 ELSE IF ~close.ok THEN AddReturnError(close, "StartOfError")
                 ELSE Ws(s, WithVal(close, e.val))
    IN  Ws(s, Alt(WithVal(id, [t |-> "Column", name |-> id.val]),
              Alt(WithVal(v, [t |-> "Value", v |-> v.val]),
              Alt(paren, AltEnd(i1)))))

expr(s, i) ==
    LET i1 == sp(s, i)
        l == Rule("e_ident", s, i1)
        comp == Then(l, Rule("comp_op", s, l.pos))
        r == Then(comp, Rule("e_ident", s, comp.pos))
        op == Rule("unary_op", s, i1)
        operand == Then(op, Rule("e_ident", s, op.pos))
    IN  Ws(s, Alt(WithVal(r, [t |-> "Binary", op |-> comp.val,
                              left |-> l.val, right |-> r.val]),
              Alt(WithVal(operand, [t |-> "Unary", op |-> op.val,
                                    operand |-> operand.val]),
              Alt(Rule("e_ident", s, i1), AltEnd(i1)))))

----------------------------------------------------------------------------
(* Lists *)

\* the element parser of each list of the grammar
ListElem(kind, s, i) ==
    CASE kind = "var" -> Ws(s, Rule("ident", s, sp(s, i)))
      [] kind = "sourced" -> Ws(s, Rule("sourced_expr", s, sp(s, i)))
      [] kind = "args" -> Ws(s, Rule("expr", s, sp(s, i)))
      [] kind = "aggs" -> Rule("complete_agg_function", s, i)
      [] kind = "filter" -> Rule("filter_cond", s, i)
      [] kind = "ops" -> Rule("operator", s, i)

\* the separator parser of each list of the grammar
ListSep(kind, s, i) ==
    CASE kind = "filter" -> multispace(s, i)
      [] kind = "ops" -> tag(s, i, T.pipe)
      [] kind = "args" -> tag(s, sp(s, i), T.comma)
      [] OTHER -> tag(s, i, T.comma)

RECURSIVE ListLoop(_, _, _, _, _)
\* the loop of separated_list! and separated_nonempty_list! after the first
\* element: an Error of the separator or of the next element ends the list
\* before that separator, any other error ends the parse
ListLoop(kind, s, i, acc, rs) ==
    LET sep == ListSep(kind, s, i)
        e == ListElem(kind, s, sep.pos)
    IN  IF IsError(sep) THEN Raise(Ok(i, acc), rs \cup sep.raised)
        ELSE IF ~sep.ok THEN Raise(sep, rs)
        ELSE IF sep.pos = i THEN Raise(Error(i, "SeparatedList"), rs)
        ELSE IF IsError(e) THEN Raise(Ok(i, acc), rs \cup e.raised)
        ELSE IF ~e.ok THEN Raise(e, rs)
        ELSE IF e.pos = sep.pos THEN Raise(Error(i, "SeparatedList"), rs)
        ELSE ListLoop(kind, s, e.pos, Append(acc, e.val), rs \cup e.raised)

separated_nonempty_list(kind, s, i) ==
    LET first == ListElem(kind, s, i)
    IN  IF ~first.ok THEN first
        ELSE IF first.pos = i
        THEN Raise(Error(i, "SeparatedNonEmptyList"), first.raised)
        ELSE ListLoop(kind, s, first.pos, <<first.val>>, first.raised)

separated_list(kind, s, i) ==
    LET first == ListElem(kind, s, i)
    IN  IF IsError(first) THEN Raise(Ok(i, <<>>), first.raised)
        ELSE IF ~first.ok THEN first
        ELSE IF first.pos = i
        THEN Raise(Error(i, "SeparatedList"), first.raised)
        ELSE ListLoop(kind, s, first.pos, <<first.val>>, first.raised)

var_list(s, i) == Ws(s, separated_nonempty_list("var", s, sp(s, i)))

sourced_expr_list(s, i) ==
    Ws(s, separated_nonempty_list("sourced", s, sp(s, i)))

RECURSIVE StripLeft(_, _)
StripLeft(w, cs) ==
    IF w # <<>> /\ w[1] \in cs THEN StripLeft(Tail(w), cs) ELSE w

RECURSIVE StripRight(_, _)
StripRight(w, cs) ==
    IF w # <<>> /\ w[Len(w)] \in cs
    THEN StripRight(SubSeq(w, 1, Len(w) - 1), cs) ELSE w

\* str::trim
trim(w) == StripRight(StripLeft(w, SpChars), SpChars)

\* str::trim_matches
trim_matches(w, c) == StripRight(StripLeft(w, {c}), {c})

\* a key expression whose header keeps the whitespace around it
sourced_expr_untrimmed(s, i) ==
    LET i1 == sp(s, i)
        ex == Rule("expr", s, i1)
        again == Rule("expr", Slice(s, 0, ex.pos), i1)
    IN  IF ~ex.ok THEN ex
        ELSE IF ~again.ok
        THEN [ex EXCEPT !.ok = FALSE, !.sev = "Panic", !.val = Nil]
        ELSE Ws(s, WithVal(ex, <<Slice(s, i1, ex.pos), again.val>>))

\* The recognised text is parsed a second time, on its own; unwrap() panics
\* when that parse fails.
sourced_expr(s, i) ==
    LET i1 == sp(s, i)
        ex == Rule("expr", s, i1)
        again == Rule("expr", Slice(s, 0, ex.pos), i1)
    IN  IF ~ex.ok THEN ex
        ELSE IF ~again.ok
        THEN [ex EXCEPT !.ok = FALSE, !.sev = "Panic", !.val = Nil]
        ELSE Ws(s, WithVal(ex, <<trim(Slice(s, i1, ex.pos)), again.val>>))

----------------------------------------------------------------------------
(* Operator names *)

VALID_AGGREGATES ==
    <<T.count, T.average, T.avg, T.average, T.sum, T.count_distinct, T.sort>>

VALID_INLINE == <<T.parse, T.limit, T.json, T.total, T.fields, T.where>>

VALID_OPERATORS == VALID_INLINE \o VALID_AGGREGATES

RECURSIVE alternative(_, _, _)
\* the first choice that is a prefix of the input, else the last error
alternative(s, i, alternatives) ==
    LET r == tag(s, i, Head(alternatives))
    IN  IF r.ok \/ Len(alternatives) = 1 THEN r
        ELSE alternative(s, i, Tail(alternatives))

\* take_while_m_n!: between m and n characters of cs
take_while_m_n(s, i, m, n, cs) ==
    LET idx == TakeWhile(s, i, cs) - i
    IN  IF idx < m
        THEN Error(i, IF i + idx < Len(s) THEN "TakeWhileMN" ELSE "Eof")
        ELSE IF idx <= n THEN Ok(i + idx, Slice(s, i, i + idx))
        ELSE Ok(i + n, Slice(s, i, i + n))

\* a percentile prefix followed by one to three digits
pct_fn_any_width(s, i) ==
    LET prefix == Alt(tag(s, i, T.pct),
                  Alt(tag(s, i, T.percentile),
                  Alt(tag(s, i, T.p), AltEnd(i))))
    IN  Then(prefix, take_while_m_n(s, prefix.pos, 1, 3, is_digit_char))

pct_fn(s, i) ==
    LET prefix == Alt(tag(s, i, T.pct),
                  Alt(tag(s, i, T.percentile),
                  Alt(tag(s, i, T.p), AltEnd(i))))
    IN  Then(prefix, take_while_m_n(s, prefix.pos, 2, 2, is_digit_char))

did_you_mean(choices, err, s, i) ==
    LET i0 == space0(s, i)
        name == Alt(Rule("pct_fn", s, i0), Alt(alternative(s, i0, choices), AltEnd(i0)))
        boundary == Then(name, Not(alpha1(s, name.pos), name.pos))
        word == take_while(s, i0, is_ident)
        unknown == Then(word, ReturnError(tag(s, word.pos, T.a), word.pos, err))
    IN  ReturnError(Alt(WithVal(boundary, name.val), Alt(unknown, AltEnd(i0))),
                    i0, "StartOfError")

did_you_mean_operator(s, i) ==
    did_you_mean(VALID_OPERATORS, "NotAnOperator", s, i)

did_you_mean_aggregate(s, i) ==
    did_you_mean(VALID_AGGREGATES, "NotAnAggregateOperator", s, i)

----------------------------------------------------------------------------
(* Inline operators *)

\* opt!(ws!(preceded!(tag!(kw), ident))) as an element of a ws!(do_parse!())
opt_preceded_ident(s, i, kw) ==
    LET i1 == sp(s, i)
        k == tag(s, i1, kw)
        id == Then(k, Rule("ident", s, sp(s, k.pos)))
    IN  Opt(Ws(s, id), i1)

\* delimited!(tag!("("), expr, tag!(")")) as an element of a ws!(do_parse!()):
\* whitespace may precede each part
paren_expr_ws(s, i) ==
    LET open == tag(s, sp(s, i), T.lparen)
        e == Then(open, Rule("expr", s, open.pos))
        close == Then(e, tag(s, sp(s, e.pos), T.rparen))
    IN  WithVal(close, e.val)

\* delimited!(tag!("("), expr, tag!(")")) outside ws!
paren_expr(s, i) ==
    LET open == tag(s, i, T.lparen)
        e == Then(open, Rule("expr", s, open.pos))
        close == Then(e, tag(s, e.pos, T.rparen))
    IN  WithVal(close, e.val)

\* json whose span is started before the blanks in front of the keyword
json_span_from_call(s, i) ==
    LET kw == tag(s, sp(s, i), T.json)
        from_column_opt == Then(kw, opt_preceded_ident(s, kw.pos, T.from))
    IN  Positioned(Ws(s, WithVal(from_column_opt,
            [op |-> "Json", input_column |-> from_column_opt.val])), i)

json(s, i) ==
    LET start_pos == space0(s, i)
        kw == tag(s, sp(s, start_pos), T.json)
        from_column_opt == Then(kw, opt_preceded_ident(s, kw.pos, T.from))
    IN  Positioned(Ws(s, WithVal(from_column_opt,
            [op |-> "Json", input_column |-> from_column_opt.val])), start_pos)

\* where whose optional expression also turns a Failure into None
whre_lenient(s, i) ==
    LET start_pos == space0(s, i)
        kw == tag(s, sp(s, start_pos), T.where)
        i1 == sp(s, kw.pos)
        ex == Positioned(Rule("expr", s, space0(s, i1)), space0(s, i1))
        ex_opt == Then(kw, IF ex.ok THEN Opt(ex, i1) ELSE Raise(Ok(i1, Nil), ex.raised))
    IN  Positioned(Ws(s, WithVal(ex_opt, [op |-> "Where", expr |-> ex_opt.val])),
                   start_pos)

whre(s, i) ==
    LET start_pos == space0(s, i)
        kw == tag(s, sp(s, start_pos), T.where)
        i1 == sp(s, kw.pos)
        ex == Then(kw, Opt(Positioned(Rule("expr", s, space0(s, i1)), space0(s, i1)), i1))
    IN  Positioned(Ws(s, WithVal(ex, [op |-> "Where", expr |-> ex.val])),
                   start_pos)

\* nom recognize_float: [+-] (digits [. [digits]] | . digits) [(e|E) [+-] digits]
recognize_float(s, i) ==
    LET sign == Opt(Alt(tag(s, i, T.plus), Alt(tag(s, i, T.minus), AltEnd(i))), i)
        whole == digit1(s, sign.pos)
        dot == Then(whole, tag(s, whole.pos, T.dot))
        frac == Then(dot, Opt(digit1(s, dot.pos), dot.pos))
        whole_frac == Then(whole, Opt(frac, whole.pos))
        ldot == tag(s, sign.pos, T.dot)
        dot_frac == Then(ldot, digit1(s, ldot.pos))
        mantissa == Alt(whole_frac, Alt(dot_frac, AltEnd(sign.pos)))
        e == Alt(tag(s, mantissa.pos, <<"e">>),
             Alt(tag(s, mantissa.pos, <<"E">>), AltEnd(mantissa.pos)))
        esign == Then(e, Opt(Alt(tag(s, e.pos, T.plus),
                             Alt(tag(s, e.pos, T.minus), AltEnd(e.pos))), e.pos))
        edigits == Then(esign, digit1(s, esign.pos))
        exponent == Then(mantissa, Opt(edigits, mantissa.pos))
    IN  WithVal(exponent, Slice(s, i, exponent.pos))

\* nom double: the recognised literal parsed to f64 (kept as its text)
double(s, i) ==
    LET r == Rule("recognize_float", s, i)
    IN  WithVal(r, [f64 |-> r.val])

\* limit whose count span is started right after the keyword
limit_span_from_keyword(s, i) ==
    LET start_pos == space0(s, i)
        kw == tag(s, sp(s, start_pos), T.limit)
        i1 == sp(s, kw.pos)
        count_opt == Then(kw, Opt(Positioned(Rule("double", s, space0(s, i1)),
                                             kw.pos), i1))
    IN  Positioned(Ws(s, WithVal(count_opt,
            [op |-> "Limit", count |-> count_opt.val])), start_pos)

limit(s, i) ==
    LET start_pos == space0(s, i)
        kw == tag(s, sp(s, start_pos), T.limit)
        i1 == sp(s, kw.pos)
        count_opt == Then(kw, Opt(Positioned(Rule("double", s, space0(s, i1)),
                                             space0(s, i1)), i1))
    IN  Positioned(Ws(s, WithVal(count_opt,
            [op |-> "Limit", count |-> count_opt.val])), start_pos)

total(s, i) ==
    LET start_pos == space0(s, i)
        kw == tag(s, sp(s, start_pos), T.total)
        input_column == Then(kw, Rule("paren_expr_ws", s, kw.pos))
        rename_opt == Then(input_column,
                           opt_preceded_ident(s, input_column.pos, T.as))
    IN  Positioned(Ws(s, WithVal(rename_opt,
            [op |-> "Total", input_column |-> input_column.val,
             output_column |-> IF rename_opt.val = Nil
                               THEN <<"_", "t", "o", "t", "a", "l">>
                               ELSE rename_opt.val[1]])), start_pos)

parse(s, i) ==
    LET start_pos == space0(s, i)
        kw == tag(s, sp(s, start_pos), T.parse)
        pattern == Then(kw, Rule("quoted_string", s, sp(s, kw.pos)))
        i1 == sp(s, pattern.pos)
        from_kw == tag(s, i1, T.from)
        from_expr == Then(from_kw, Rule("expr", s, from_kw.pos))
        from_column_opt == Then(pattern, Opt(Ws(s, from_expr), i1))
        as_kw == Then(from_column_opt, tag(s, sp(s, from_column_opt.pos), T.as))
        var_names == Then(as_kw, Rule("var_list", s, as_kw.pos))
        i2 == sp(s, var_names.pos)
        no_drop_opt == Then(var_names, Opt(Ws(s, tag(s, i2, T.nodrop)), i2))
    IN  Positioned(Ws(s, WithVal(no_drop_opt,
            [op |-> "Parse",
             pattern |-> [text |-> pattern.val, type |-> "WILDCARD"],
             fields |-> var_names.val,
             input_column |-> from_column_opt.val,
             no_drop |-> no_drop_opt.val # Nil])), start_pos)

fields_mode(s, i) ==
    Alt(WithVal(Alt(tag(s, i, T.plus),
                Alt(tag(s, i, T.only),
                Alt(tag(s, i, T.include), AltEnd(i)))), "Only"),
    Alt(WithVal(Alt(tag(s, i, T.minus),
                Alt(tag(s, i, T.except),
                Alt(tag(s, i, T.drop), AltEnd(i)))), "Except"),
        AltEnd(i)))

fields(s, i) ==
    LET start_pos == space0(s, i)
        kw == tag(s, sp(s, start_pos), T.fields)
        i1 == sp(s, kw.pos)
        mode == Then(kw, Opt(Rule("fields_mode", s, i1), i1))
        fs == Then(mode, Rule("var_list", s, mode.pos))
    IN  Positioned(Ws(s, WithVal(fs,
            [op |-> "Fields",
             mode |-> IF mode.val = Nil THEN "Only" ELSE mode.val[1],
             fields |-> fs.val])), start_pos)

inline_operator(s, i) ==
    LET r == Alt(Rule("parse", s, i), Alt(Rule("json", s, i), Alt(Rule("fields", s, i),
             Alt(Rule("whre", s, i), Alt(Rule("limit", s, i), Alt(Rule("total", s, i), AltEnd(i)))))))
    IN  WithVal(r, [kind |-> "Inline", inline |-> r.val])

----------------------------------------------------------------------------
(* Aggregate operators *)

\* The closing return_error! leaves arg_list at once with the Failure.
arg_list(s, i) ==
    LET start_pos == space0(s, i)
        open == tag(s, start_pos, T.lparen)
        args == Then(open, Ws(s, separated_list("args", s, sp(s, open.pos))))
        close == Then(args, ReturnError(tag(s, args.pos, T.rparen), args.pos,
                                        "MissingParen"))
    IN  IF IsFailure(close) /\ args.ok THEN close
        ELSE IF ~close.ok THEN AddReturnError(close, "StartOfError")
        ELSE Positioned(WithVal(close, args.val), start_pos)

count(s, i) ==
    LET start_pos == space0(s, i)
    IN  Positioned(WithVal(tag(s, start_pos, T.count), [fn |-> "Count"]),
                   start_pos)

average(s, i) ==
    LET start_pos == space0(s, i)
        i1 == sp(s, start_pos)
        kw == Alt(tag(s, i1, T.avg), Alt(tag(s, i1, T.average), AltEnd(i1)))
        column == Then(kw, Rule("paren_expr_ws", s, kw.pos))
    IN  Positioned(Ws(s, WithVal(column,
            [fn |-> "Average", column |-> column.val])), start_pos)

count_distinct(s, i) ==
    LET start_pos == space0(s, i)
        kw == tag(s, sp(s, start_pos), T.count_distinct)
        i1 == sp(s, kw.pos)
        column == Then(kw, Opt(Rule("arg_list", s, i1), i1))
    IN  Positioned(Ws(s, WithVal(column,
            [fn |-> "CountDistinct", column |-> column.val])), start_pos)

sum(s, i) ==
    LET start_pos == space0(s, i)
        kw == tag(s, sp(s, start_pos), T.sum)
        column == Then(kw, Rule("paren_expr_ws", s, kw.pos))
    IN  Positioned(Ws(s, WithVal(column,
            [fn |-> "Sum", column |-> column.val])), start_pos)

RECURSIVE Pow10(_)
Pow10(n) == IF n = 0 THEN 1 ELSE 10 * Pow10(n - 1)

\* ("." + digits).parse::<f64>(), as the fraction num / den
parse_fraction(ds) == [num |-> DigitsToNat(ds), den |-> Pow10(Len(ds))]

p_nn(s, i) ==
    LET start_pos == space0(s, sp(s, i))
        pct == Rule("pct_fn", s, start_pos)
        column == Then(pct, Rule("paren_expr", s, pct.pos))
    IN  Ws(s, Positioned(WithVal(column,
            [fn |-> "Percentile", column |-> column.val,
             percentile |-> parse_fraction(pct.val),
             percentile_str |-> pct.val]), start_pos))

aggregate_function(s, i) ==
    LET known == Peek(Rule("did_you_mean_aggregate", s, i), i)
    IN  Then(known, Alt(Rule("count_distinct", s, i), Alt(Rule("count", s, i),
                    Alt(Rule("average", s, i), Alt(Rule("sum", s, i), Alt(Rule("p_nn", s, i),
                    AltEnd(i)))))))

\* default names taken from the function's keyword
default_output_keyword(func) ==
    CASE func.value.fn = "Count" -> <<"c", "o", "u", "n", "t">>
      [] func.value.fn = "Sum" -> <<"s", "u", "m">>
      [] func.value.fn = "Average" -> <<"a", "v", "g">>
      [] func.value.fn = "CountDistinct" ->
           <<"c", "o", "u", "n", "t", "_", "d", "i", "s", "t", "i", "n", "c", "t">>
      [] func.value.fn = "Percentile" -> <<"p", "c", "t">> \o func.value.percentile_str

default_output(func) ==
    CASE func.value.fn = "Count" -> <<"_", "c", "o", "u", "n", "t">>
      [] func.value.fn = "Sum" -> <<"_", "s", "u", "m">>
      [] func.value.fn = "Average" -> <<"_", "a", "v", "e", "r", "a", "g", "e">>
      [] func.value.fn = "CountDistinct" ->
           <<"_", "c", "o", "u", "n", "t", "D", "i", "s", "t", "i", "n", "c", "t">>
      [] func.value.fn = "Percentile" -> <<"p">> \o func.value.percentile_str

complete_agg_function(s, i) ==
    LET agg_function == Rule("aggregate_function", s, sp(s, i))
        rename_opt == Then(agg_function,
                           opt_preceded_ident(s, agg_function.pos, T.as))
    IN  Ws(s, WithVal(rename_opt,
            <<IF rename_opt.val = Nil THEN default_output(agg_function.val)
              ELSE rename_opt.val[1],
              agg_function.val>>))

multi_aggregate_operator(s, i) ==
    LET agg_functions == Ws(s, separated_nonempty_list("aggs", s, sp(s, i)))
        i1 == sp(s, agg_functions.pos)
        by == tag(s, i1, T.by)
        key_cols == Then(by, Rule("sourced_expr_list", s, by.pos))
        key_cols_opt == Then(agg_functions, Opt(key_cols, i1))
        cols == IF key_cols_opt.val = Nil THEN <<>> ELSE key_cols_opt.val[1]
    IN  Ws(s, WithVal(key_cols_opt,
            [kind |-> "MultiAggregate",
             key_col_headers |-> [k \in DOMAIN cols |-> cols[k][1]],
             key_cols |-> [k \in DOMAIN cols |-> cols[k][2]],
             aggregate_functions |-> agg_functions.val]))

----------------------------------------------------------------------------
(* Sort *)

sort_mode(s, i) ==
    Alt(WithVal(Alt(tag(s, i, T.asc),
                Alt(tag(s, i, T.ascending), AltEnd(i))), "Ascending"),
    Alt(WithVal(Alt(tag(s, i, T.desc),
                Alt(tag(s, i, T.dsc),
                Alt(tag(s, i, T.descending), AltEnd(i)))), "Descending"),
        AltEnd(i)))

sort(s, i) ==
    LET kw == tag(s, sp(s, i), T.sort)
        i1 == sp(s, kw.pos)
        by == Opt(tag(s, i1, T.by), i1)
        cols == Then(by, Rule("var_list", s, by.pos))
        key_cols_opt == Then(kw, Opt(cols, i1))
        i2 == sp(s, key_cols_opt.pos)
        dir == Then(key_cols_opt, Opt(Rule("sort_mode", s, i2), i2))
    IN  Ws(s, WithVal(dir,
            [kind |-> "Sort",
             sort_cols |-> IF key_cols_opt.val = Nil THEN <<>>
                           ELSE key_cols_opt.val[1],
             direction |-> IF dir.val = Nil THEN "Ascending"
                           ELSE dir.val[1]]))

----------------------------------------------------------------------------
(* Operators and queries *)

operator(s, i) ==
    LET known == Peek(Rule("did_you_mean_operator", s, i), i)
    IN  Then(known, Alt(Rule("inline_operator", s, i), Alt(Rule("sort", s, i),
                    Alt(Rule("multi_aggregate_operator", s, i), AltEnd(i)))))

\* a filter term whose bare keyword keeps its asterisks
filter_cond_untrimmed(s, i) ==
    LET q == Rule("quoted_string", s, i)
        k == Rule("keyword", s, i)
    IN  Alt(WithVal(q, [text |-> q.val, type |-> "EXACT"]),
        Alt(WithVal(k, [text |-> k.val, type |-> "WILDCARD"]),
            AltEnd(i)))

filter_cond(s, i) ==
    LET q == Rule("quoted_string", s, i)
        k == Rule("keyword", s, i)
    IN  Alt(WithVal(q, [text |-> q.val, type |-> "EXACT"]),
        Alt(WithVal(k, [text |-> trim_matches(k.val, "*"), type |-> "WILDCARD"]),
            AltEnd(i)))

\* a filter that keeps the keywords whose text is empty
retain_all(v) == v

\* Vec::retain
retain_nonempty(v) == SelectSeq(v, LAMBDA k : k.text # <<>>)

filter(s, i) ==
    LET r == separated_nonempty_list("filter", s, i)
    IN  WithVal(r, retain_nonempty(r.val))

\* eof!
eof(s, i) == IF i >= Len(s) THEN Ok(i, Nil) ELSE Error(i, "Eof")

\* query without exact!: the text after the last stage is left over
query_partial(s, i) ==
    LET flt == Rule("filter", s, sp(s, i))
        i1 == sp(s, flt.pos)
        pipe == tag(s, i1, T.pipe)
        ops == Then(pipe, Ws(s, separated_nonempty_list("ops", s, sp(s, pipe.pos))))
        operators == Then(flt, Opt(ops, i1))
    IN  Ws(s, WithVal(operators,
            [search |-> flt.val,
             operators |-> IF operators.val = Nil THEN <<>>
                           ELSE operators.val[1]]))

query(s, i) ==
    LET flt == Rule("filter", s, sp(s, i))
        i1 == sp(s, flt.pos)
        pipe == tag(s, i1, T.pipe)
        ops == Then(pipe, Ws(s, separated_nonempty_list("ops", s, sp(s, pipe.pos))))
        operators == Then(flt, Opt(ops, i1))
        q == Ws(s, WithVal(operators,
                 [search |-> flt.val,
                  operators |-> IF operators.val = Nil THEN <<>>
                                ELSE operators.val[1]]))
        end == Then(q, eof(s, q.pos))
    IN  WithVal(end, q.val)

----------------------------------------------------------------------------
(* The rules by name *)

\* the named! parser r applied to the text s at offset i
Rule(r, s, i) ==
    CASE r = "double_quoted_string" -> double_quoted_string(s, i)
      [] r = "single_quoted_string" -> single_quoted_string(s, i)
      [] r = "quoted_string" -> quoted_string(s, i)
      [] r = "value" -> value(s, i)
      [] r = "ident" -> ident(s, i)
      [] r = "keyword" -> keyword(s, i)
      [] r = "comp_op" -> comp_op(s, i)
      [] r = "unary_op" -> unary_op(s, i)
      [] r = "e_ident" -> e_ident(s, i)
      [] r = "expr" -> expr(s, i)
      [] r = "var_list" -> var_list(s, i)
      [] r = "sourced_expr_list" -> sourced_expr_list(s, i)
      [] r = "sourced_expr" -> sourced_expr(s, i)
      [] r = "pct_fn" -> pct_fn(s, i)
      [] r = "did_you_mean_operator" -> did_you_mean_operator(s, i)
      [] r = "did_you_mean_aggregate" -> did_you_mean_aggregate(s, i)
      [] r = "paren_expr_ws" -> paren_expr_ws(s, i)
      [] r = "paren_expr" -> paren_expr(s, i)
      [] r = "json" -> json(s, i)
      [] r = "whre" -> whre(s, i)
      [] r = "recognize_float" -> recognize_float(s, i)
      [] r = "double" -> double(s, i)
      [] r = "limit" -> limit(s, i)
      [] r = "total" -> total(s, i)
      [] r = "parse" -> parse(s, i)
      [] r = "fields_mode" -> fields_mode(s, i)
      [] r = "fields" -> fields(s, i)
      [] r = "inline_operator" -> inline_operator(s, i)
      [] r = "arg_list" -> arg_list(s, i)
      [] r = "count" -> count(s, i)
      [] r = "average" -> average(s, i)
      [] r = "count_distinct" -> count_distinct(s, i)
      [] r = "sum" -> sum(s, i)
      [] r = "p_nn" -> p_nn(s, i)
      [] r = "aggregate_function" -> aggregate_function(s, i)
      [] r = "complete_agg_function" -> complete_agg_function(s, i)
      [] r = "multi_aggregate_operator" -> multi_aggregate_operator(s, i)
      [] r = "sort_mode" -> sort_mode(s, i)
      [] r = "sort" -> sort(s, i)
      [] r = "operator" -> operator(s, i)
      [] r = "filter_cond" -> filter_cond(s, i)
      [] r = "filter" -> filter(s, i)
      [] r = "query" -> query(s, i)

----------------------------------------------------------------------------
(* The parser at work: a text is typed fragment by fragment and then handed *)
(* to one rule of the grammar.  input is the text, typed the fragments it   *)
(* was typed in, rule the rule applied and out its result.                  *)

Run(r, s) == Rule(r, s, 0)

Init ==
    /\ input = <<>>
    /\ typed = <<>>
    /\ phase = "typing"
    /\ rule = "none"
    /\ out = Ok(0, Nil)

Type(frag, max) ==
    /\ phase = "typing"
    /\ Len(typed) < max
    /\ input' = input \o frag
    /\ typed' = Append(typed, frag)
    /\ UNCHANGED <<phase, rule, out>>

Apply(r) ==
    /\ phase = "typing"
    /\ phase' = "parsed"
    /\ rule' = r
    /\ out' = Run(r, input)
    /\ UNCHANGED <<input, typed>>

Parsed(r) == phase = "parsed" /\ rule = r

FatalKinds == {"UnterminatedDoubleQuotedString", "UnterminatedSingleQuotedString",
               "MissingParen", "NotAnOperator", "NotAnAggregateOperator"}

\* the kind of a fatal error: the first fatal code of its chain
FatalKind(r) ==
    IF IsFailure(r) /\ \E k \in DOMAIN r.codes : r.codes[k] \in FatalKinds
    THEN r.codes[CHOOSE k \in DOMAIN r.codes :
                    /\ r.codes[k] \in FatalKinds
                    /\ \A j \in 1..(k - 1) : r.codes[j] \notin FatalKinds]
    ELSE "none"

----------------------------------------------------------------------------
(* Whole queries *)

MaxQueryFrags == 4

F_star == <<"*">>
F_wild == <<"*", "a", "b", "*">>
F_exact == <<"\"", "*", "g", " ", "h", "*", "\"">>
F_empty == <<"'", "'">>
F_space == <<" ">>
F_newline == <<"\n">>
F_json == <<"|", " ", "j", "s", "o", "n">>
F_count_by == <<"|", "c", "o", "u", "n", "t", " ", "b", "y", " ", "x", " ">>
F_five == <<"5">>
F_dq == <<"\"">>

FilterTermFrags == {F_star, F_wild, F_exact, F_empty}

FilterSepFrags == {F_space, F_newline}

QueryFrags == FilterTermFrags \cup FilterSepFrags \cup
              {F_json, F_count_by, F_five, F_dq}

TypeQuery == \E f \in QueryFrags : Type(f, MaxQueryFrags)

ParseQuery == Apply("query")

Next == TypeQuery \/ ParseQuery

Spec == Init /\ [][Next]_vars

\* C1: query returns either a Query, and then the whole input is consumed,
\* or an error; it never returns a Query with text left over.
C1_QueryConsumesAll ==
    Parsed("query") =>
        /\ out.ok => out.pos = Len(input)
        /\ ~out.ok => out.sev \in {"Error", "Failure"}

\* a Query with two stages was returned for a text typed in three fragments
C1_Witness ==
    /\ Parsed("query")
    /\ out.ok
    /\ Len(out.val.operators) = 2
    /\ out.pos = Len(input)
    /\ Len(typed) = 3

----------------------------------------------------------------------------
(* One pipeline stage: operator names *)

MaxOperatorFrags == 3

F_n == <<"n">>
F_underscore == <<"_">>
F_arg == <<"(", "x", ")">>

OperatorNameFrags == {<<"j", "s", "o", "n">>, <<"c", "o", "u", "n", "t">>, <<"p", "5", "0">>, <<"p", "c", "t">>, <<"s", "o", "r", "t">>, <<"f", "o", "o">>}

OperatorFrags == OperatorNameFrags \cup {F_n, F_five, F_underscore, F_space, F_arg}

TypeOperator == \E f \in OperatorFrags : Type(f, MaxOperatorFrags)

ParseOperator == Apply("operator")

NextOperator == TypeOperator \/ ParseOperator

SpecOperator == Init /\ [][NextOperator]_vars

\* the identifier-like token a text starts with, after spaces and tabs
UpcomingToken(s) ==
    LET b == TakeWhile(s, 0, SpaceChars)
    IN  Slice(s, b, TakeWhile(s, b, is_ident))

OperatorNames ==
    {<<"j", "s", "o", "n">>, <<"p", "a", "r", "s", "e">>, <<"f", "i", "e", "l", "d", "s">>, <<"w", "h", "e", "r", "e">>, <<"l", "i", "m", "i", "t">>, <<"t", "o", "t", "a", "l">>,
     <<"c", "o", "u", "n", "t">>, <<"m", "i", "n">>, <<"a", "v", "e", "r", "a", "g", "e">>, <<"a", "v", "g">>, <<"m", "a", "x">>, <<"s", "u", "m">>,
     <<"c", "o", "u", "n", "t", "_", "d", "i", "s", "t", "i", "n", "c", "t">>, <<"s", "o", "r", "t">>}

PercentileNames ==
    {pre \o <<d1, d2>> : pre \in {<<"p">>, <<"p", "c", "t">>, <<"p", "e", "r", "c", "e", "n", "t", "i", "l", "e">>},
                         d1 \in DigitChars, d2 \in DigitChars}

\* C2: at an operator position, a token that is neither a whitelisted
\* operator name nor p/pct/percentile with two digits fails with the fatal
\* kind NotAnOperator, also when it is a whitelisted name extended by
\* further identifier characters.
C2_UnknownTokenIsNotAnOperator ==
    Parsed("operator") /\ UpcomingToken(input) \notin OperatorNames \cup PercentileNames
        => FatalKind(out) = "NotAnOperator"


----------------------------------------------------------------------------
(* Whole queries whose stages raise fatal errors *)

MaxFatalFrags == 4

F_all == <<"*", " ", "|", " ">>
F_where == <<"w", "h", "e", "r", "e", " ">>
F_open_expr == <<"(", "a", " ", "=", "=", " ", "b">>
F_close == <<")">>
F_open_dq == <<"\"", "x">>
F_open_sq == <<"'", "y">>
F_jsonn == <<"j", "s", "o", "n", "n">>
F_json_pipe == <<"j", "s", "o", "n", " ", "|", " ">>
F_count_foo == <<"c", "o", "u", "n", "t", ",", " ", "f", "o", "o">>
F_count_by_key == <<"c", "o", "u", "n", "t", " ", "b", "y", " ">>
F_distinct_open == <<"c", "o", "u", "n", "t", "_", "d", "i", "s", "t", "i", "n", "c", "t", "(", "a">>
F_parse == <<"p", "a", "r", "s", "e", " ">>

FatalFrags == {F_all, F_where, F_open_expr, F_close, F_open_dq, F_open_sq, F_jsonn,
               F_json_pipe, F_count_foo, F_count_by_key, F_distinct_open, F_parse}

TypeFatal == \E f \in FatalFrags : Type(f, MaxFatalFrags)

NextFatal == TypeFatal \/ ParseQuery

SpecFatal == Init /\ [][NextFatal]_vars

\* the fatal kinds raised anywhere while a rule ran
RaisedKinds(r) == r.raised \cap FatalKinds

----------------------------------------------------------------------------
(* The search list of a query *)

\* the keyword a filter term stands for; an empty text stands for none
ExpectedKeyword(f) ==
    CASE f = F_star -> [text |-> <<>>, type |-> "WILDCARD"]
      [] f = F_wild -> [text |-> <<"a", "b">>, type |-> "WILDCARD"]
      [] f = F_exact -> [text |-> <<"*", "g", " ", "h", "*">>, type |-> "EXACT"]
      [] f = F_empty -> [text |-> <<>>, type |-> "EXACT"]

RECURSIVE ExpectedSearch(_)
ExpectedSearch(fs) ==
    IF fs = <<>> THEN <<>>
    ELSE LET f == Head(fs)
             rest == ExpectedSearch(Tail(fs))
         IN  IF f \in FilterTermFrags /\ ExpectedKeyword(f).text # <<>>
             THEN <<ExpectedKeyword(f)>> \o rest
             ELSE rest

\* filter terms typed one per fragment, each followed by whitespace before
\* the next
TermsSeparated ==
    /\ \A k \in DOMAIN typed : typed[k] \in FilterTermFrags \cup FilterSepFrags
    /\ \A k \in DOMAIN typed :
          k > 1 /\ typed[k] \in FilterTermFrags => typed[k - 1] \in FilterSepFrags

\* C6: the search list of a Query holds, in source order, one Keyword per
\* non-empty filter term: a quoted term gives an Exact keyword with the
\* quoted content verbatim, a bare term a Wildcard keyword without its
\* leading and trailing asterisks; no keyword has an empty text.
C6_SearchKeywords ==
    Parsed("query") /\ out.ok =>
        /\ \A k \in DOMAIN out.val.search :
              LET kw == out.val.search[k]
              IN  /\ kw.text # <<>>
                  /\ kw.type \in {"EXACT", "WILDCARD"}
                  /\ kw.type = "WILDCARD" =>
                        Head(kw.text) # "*" /\ kw.text[Len(kw.text)] # "*"
        /\ TermsSeparated /\ (\E k \in DOMAIN typed : typed[k] \in FilterTermFrags)
              => out.val.search = ExpectedSearch(typed)

\* a wildcard term and a quoted term, in this order
C6_Witness ==
    /\ Parsed("query")
    /\ out.ok
    /\ typed = <<F_wild, F_newline, F_exact, F_space>>
    /\ out.val.search = <<[text |-> <<"a", "b">>, type |-> "WILDCARD"],
                          [text |-> <<"*", "g", " ", "h", "*">>, type |-> "EXACT"]>>

\* a text of asterisks and whitespace only
StarsAndSpaces(s) == \A k \in DOMAIN s : s[k] \in {"*"} \cup SpChars

EmptyQuery(r) == r.ok /\ r.val.search = <<>> /\ r.val.operators = <<>>

----------------------------------------------------------------------------
(* Quoted strings, typed one character at a time *)

MaxQuotedLen == 5

QuotedChars == {"\"", "'", "\\", "a"}

TypeQuoted == \E c \in QuotedChars : Type(<<c>>, MaxQuotedLen)

ParseQuoted == Apply("quoted_string")

NextQuoted == TypeQuoted \/ ParseQuoted

SpecQuoted == Init /\ [][NextQuoted]_vars

\* whether the delimiter q occurs from index k on outside an escape: a
\* backslash escapes the character after it
RECURSIVE HasUnescaped(_, _, _)
HasUnescaped(s, k, q) ==
    IF k > Len(s) THEN FALSE
    ELSE IF s[k] = "\\" THEN HasUnescaped(s, k + 2, q)
    ELSE IF s[k] = q THEN TRUE
    ELSE HasUnescaped(s, k + 1, q)

Unterminated(s, q) == s # <<>> /\ Head(s) = q /\ ~HasUnescaped(s, 2, q)

\* C4: a text that opens a quoted string and holds no later unescaped
\* delimiter makes quoted_string fail with the fatal kind
\* UnterminatedDoubleQuotedString or UnterminatedSingleQuotedString, also
\* when the other kind of quote occurs inside and when the text ends right
\* after a backslash.
C4_UnterminatedIsFatal ==
    Parsed("quoted_string") =>
        /\ Unterminated(input, "\"")
              => FatalKind(out) = "UnterminatedDoubleQuotedString"
        /\ Unterminated(input, "'")
              => FatalKind(out) = "UnterminatedSingleQuotedString"

----------------------------------------------------------------------------
(* Parentheses *)

MaxParenFrags == 4

F_lparen == <<"(">>
F_x == <<"x">>
F_cmp == <<"a", " ", "=", "=", " ", "b">>

ParenContextFrags == {<<"w", "h", "e", "r", "e", " ">>, <<"s", "u", "m">>, <<"a", "v", "g">>, <<"a", "v", "e", "r", "a", "g", "e">>, <<"p", "5", "0">>,
                      <<"c", "o", "u", "n", "t", "_", "d", "i", "s", "t", "i", "n", "c", "t">>, <<"t", "o", "t", "a", "l">>}

ParenExprFrags == {F_x, F_cmp}

ParenFrags == ParenContextFrags \cup ParenExprFrags \cup {F_lparen, F_close, F_space}

TypeParen == \E f \in ParenFrags : Type(f, MaxParenFrags)

NextParen == TypeParen \/ ParseOperator

SpecParen == Init /\ [][NextParen]_vars

\* C5: after the opening parenthesis of a parenthesised sub-expression, of
\* the argument of sum, avg/average or pNN, of the argument list of
\* count_distinct or of the argument of total, a missing closing
\* parenthesis makes the parse fail with the fatal kind MissingParen.
C5_MissingParenIsFatal ==
    /\ Parsed("operator")
    /\ Len(typed) \in {3, 4}
    /\ typed[1] \in ParenContextFrags
    /\ typed[2] = F_lparen
    /\ typed[3] \in ParenExprFrags
    /\ Len(typed) = 4 => typed[4] = F_space
    => FatalKind(out) = "MissingParen"

----------------------------------------------------------------------------
(* Percentiles *)

MaxPctFrags == 5

F_p == <<"p">>
F_pct == <<"p", "c", "t">>
F_percentile == <<"p", "e", "r", "c", "e", "n", "t", "i", "l", "e">>

PctPrefixFrags == {F_p, F_pct, F_percentile}

PctDigitFrags == {<<"0">>, <<"5">>, <<"9">>}

PctArgFrags == {F_arg, <<"(", "a", " ", "=", "=", " ", "b", ")">>}

PctFrags == PctPrefixFrags \cup PctDigitFrags \cup PctArgFrags

TypePct == \E f \in PctFrags : Type(f, MaxPctFrags)

ParseAgg == Apply("complete_agg_function")

NextPct == TypePct \/ ParseAgg

SpecPct == Init /\ [][NextPct]_vars

DigitValue(d) == CASE d = <<"0">> -> 0 [] d = <<"5">> -> 5 [] d = <<"9">> -> 9

\* a prefix, then digits only, then a parenthesised argument
PctShape ==
    /\ Len(typed) >= 3
    /\ typed[1] \in PctPrefixFrags
    /\ typed[Len(typed)] \in PctArgFrags
    /\ \A k \in 2..(Len(typed) - 1) : typed[k] \in PctDigitFrags

\* C8: p, pct or percentile followed by two digits NN and a parenthesised
\* expression parses to Percentile with percentile_str = NN and
\* percentile = NN/100; followed by one digit or by three or more, the
\* aggregate parse fails.
C8_PercentileTwoDigits ==
    Parsed("complete_agg_function") /\ PctShape =>
        IF Len(typed) = 4
        THEN /\ out.ok
             /\ out.pos = Len(input)
             /\ LET func == out.val[2].value
                IN  /\ func.fn = "Percentile"
                    /\ func.percentile_str = typed[2] \o typed[3]
                    /\ func.percentile.num * 100 =
                         (10 * DigitValue(typed[2]) + DigitValue(typed[3]))
                           * func.percentile.den
                    /\ func.column = Rule("expr", typed[4], 1).val
        ELSE ~out.ok

\* percentile05(a == b)
C8_Witness ==
    /\ Parsed("complete_agg_function")
    /\ typed = <<F_percentile, <<"0">>, <<"5">>, <<"(", "a", " ", "=", "=", " ", "b", ")">>>>
    /\ out.ok
    /\ out.val[2].value.percentile_str = <<"0", "5">>
    /\ out.val[2].value.percentile = [num |-> 5, den |-> 100]

\* p505(x), three digits
C8_WitnessRejected ==
    /\ Parsed("complete_agg_function")
    /\ typed = <<F_p, <<"5">>, <<"0">>, <<"5">>, F_arg>>
    /\ ~out.ok

----------------------------------------------------------------------------
(* Output names of aggregate functions *)

MaxAggFrags == 3

F_count == <<"c", "o", "u", "n", "t">>
F_sum == <<"s", "u", "m", "(", "x", ")">>
F_avg == <<"a", "v", "g", "(", "x", ")">>
F_average == <<"a", "v", "e", "r", "a", "g", "e", "(", "x", ")">>
F_count_distinct == <<"c", "o", "u", "n", "t", "_", "d", "i", "s", "t", "i", "n", "c", "t">>
F_count_distinct_x == <<"c", "o", "u", "n", "t", "_", "d", "i", "s", "t", "i", "n", "c", "t", "(", "x", ")">>
F_p50 == <<"p", "5", "0", "(", "x", ")">>
F_pct50 == <<"p", "c", "t", "5", "0", "(", "x", ")">>
F_percentile50 == <<"p", "e", "r", "c", "e", "n", "t", "i", "l", "e", "5", "0", "(", "x", ")">>
F_as == <<" ", "a", "s", " ">>

AggFunctionFrags == {F_count, F_sum, F_avg, F_average, F_count_distinct,
                     F_count_distinct_x, F_p50, F_pct50, F_percentile50}

AggNameFrags == {<<"r">>, <<"n", "_", "2">>}

AggFrags == AggFunctionFrags \cup AggNameFrags \cup {F_as, F_space}

TypeAgg == \E f \in AggFrags : Type(f, MaxAggFrags)

NextAgg == TypeAgg \/ ParseAgg

SpecAgg == Init /\ [][NextAgg]_vars

\* the default output name of each function as written
DefaultName(f) ==
    CASE f = F_count -> <<"_", "c", "o", "u", "n", "t">>
      [] f = F_sum -> <<"_", "s", "u", "m">>
      [] f \in {F_avg, F_average} -> <<"_", "a", "v", "e", "r", "a", "g", "e">>
      [] f \in {F_count_distinct, F_count_distinct_x} -> <<"_", "c", "o", "u", "n", "t", "D", "i", "s", "t", "i", "n", "c", "t">>
      [] f \in {F_p50, F_pct50, F_percentile50} -> <<"p", "5", "0">>

\* the variant each function as written parses to
VariantOf(f) ==
    CASE f = F_count -> "Count"
      [] f = F_sum -> "Sum"
      [] f \in {F_avg, F_average} -> "Average"
      [] f \in {F_count_distinct, F_count_distinct_x} -> "CountDistinct"
      [] f \in {F_p50, F_pct50, F_percentile50} -> "Percentile"

\* C9: the output name of an aggregate function parsed by
\* complete_agg_function is the identifier of its as IDENT when there is
\* one, and otherwise the default of its variant: _count, _sum, _average,
\* _countDistinct, or p and the two digits of a percentile whichever prefix
\* was written.
C9_OutputName ==
    Parsed("complete_agg_function") /\ typed # <<>> /\ typed[1] \in AggFunctionFrags =>
        /\ Len(typed) = 1 \/ (\A k \in 2..Len(typed) : typed[k] = F_space)
              => /\ out.ok
                 /\ out.val[2].value.fn = VariantOf(typed[1])
                 /\ out.val[1] = DefaultName(typed[1])
        /\ Len(typed) = 3 /\ typed[2] = F_as /\ typed[3] \in AggNameFrags
              => /\ out.ok
                 /\ out.val[2].value.fn = VariantOf(typed[1])
                 /\ out.val[1] = typed[3]
        /\ out.ok /\ (\A k \in DOMAIN typed : typed[k] # F_as)
              => out.val[1] = DefaultName(typed[1])

\* percentile50(x) without a rename
C9_Witness ==
    /\ Parsed("complete_agg_function")
    /\ typed = <<F_percentile50>>
    /\ out.ok
    /\ out.val[1] = <<"p", "5", "0">>

\* average(x) as n_2
C9_WitnessRenamed ==
    /\ Parsed("complete_agg_function")
    /\ typed = <<F_average, F_as, <<"n", "_", "2">>>>
    /\ out.ok
    /\ out.val[1] = <<"n", "_", "2">>

----------------------------------------------------------------------------
(* Group-by keys *)

MaxMultiFrags == 5

F_by == <<" ", "b", "y", " ">>
F_comma == <<",", " ">>
F_key_column == <<"f", "o", "o">>
F_key_binary == <<"a", " ", "=", "=", " ", "b", " ">>
F_key_paren == <<"(", "b", ")">>
F_key_string == <<"'", "s", " ", "t", "'">>

KeyFrags == {F_key_column, F_key_binary, F_key_paren, F_key_string}

MultiFrags == KeyFrags \cup {F_count, F_by, F_comma, F_space}

TypeMulti == \E f \in MultiFrags : Type(f, MaxMultiFrags)

ParseMulti == Apply("multi_aggregate_operator")

NextMulti == TypeMulti \/ ParseMulti

SpecMulti == Init /\ [][NextMulti]_vars

\* w occurs in s as a contiguous piece
IsSubstring(w, s) ==
    \E b \in 0..(Len(s) - Len(w)) : SubSeq(s, b + 1, b + Len(w)) = w

\* w is the text f without the whitespace around it
IsTrimmed(w, f) ==
    /\ w # <<>>
    /\ Head(w) \notin SpChars
    /\ w[Len(w)] \notin SpChars
    /\ \E b \in 0..(Len(f) - Len(w)) :
          /\ SubSeq(f, b + 1, b + Len(w)) = w
          /\ \A k \in (1..b) \cup ((b + Len(w) + 1)..Len(f)) : f[k] \in SpChars

\* C10: in a MultiAggregateOperator, key_cols and key_col_headers have the
\* same length, zero without by; each header is the source text of its key
\* expression without the whitespace around it, and each key column is what
\* expr gives for the header parsed on its own; that second parse never
\* fails.
C10_KeyHeadersMatchKeys ==
    Parsed("multi_aggregate_operator") =>
        /\ out.sev # "Panic"
        /\ out.ok =>
              LET headers == out.val.key_col_headers
                  cols == out.val.key_cols
              IN  /\ Len(headers) = Len(cols)
                  /\ (\A k \in DOMAIN typed : typed[k] # F_by) => Len(cols) = 0
                  /\ \A k \in DOMAIN headers :
                        /\ headers[k] # <<>>
                        /\ Head(headers[k]) \notin SpChars
                        /\ headers[k][Len(headers[k])] \notin SpChars
                        /\ IsSubstring(headers[k], input)
                        /\ Rule("expr", headers[k], 0).ok
                        /\ Rule("expr", headers[k], 0).pos = Len(headers[k])
                        /\ Rule("expr", headers[k], 0).val = cols[k]
                  /\ /\ Len(typed) \in {3, 5}
                     /\ typed[1] = F_count
                     /\ typed[2] = F_by
                     /\ typed[3] \in KeyFrags
                     /\ Len(typed) = 5 => typed[4] = F_comma /\ typed[5] \in KeyFrags
                     => /\ Len(headers) = (Len(typed) - 1) \div 2
                        /\ \A k \in DOMAIN headers : IsTrimmed(headers[k], typed[2 * k + 1])

\* count by a == b , 's t'
C10_Witness ==
    /\ Parsed("multi_aggregate_operator")
    /\ typed = <<F_count, F_by, F_key_binary, F_comma, F_key_string>>
    /\ out.ok
    /\ out.val.key_col_headers = <<<<"a", " ", "=", "=", " ", "b">>, <<"'", "s", " ", "t", "'">>>>
    /\ Len(out.val.key_cols) = 2

----------------------------------------------------------------------------
(* Sort stages *)

MaxSortFrags == 4

F_sort == <<"s", "o", "r", "t">>
F_sort_by == <<" ", "b", "y">>
F_sort_col == <<" ", "f", "o", "o">>
F_sort_cols == <<" ", "f", "o", "o", ",", " ", "b", "a", "r">>
F_asc == <<" ", "a", "s", "c">>
F_ascending == <<" ", "a", "s", "c", "e", "n", "d", "i", "n", "g">>
F_desc == <<" ", "d", "e", "s", "c">>
F_dsc == <<" ", "d", "s", "c">>
F_descending == <<" ", "d", "e", "s", "c", "e", "n", "d", "i", "n", "g">>

SortColFrags == {F_sort_col, F_sort_cols}

SortDirFrags == {F_asc, F_ascending, F_desc, F_dsc, F_descending}

SortFrags == SortColFrags \cup SortDirFrags \cup {F_sort, F_sort_by, F_space}

TypeSort == \E f \in SortFrags : Type(f, MaxSortFrags)

NextSort == TypeSort \/ ParseOperator

SpecSort == Init /\ [][NextSort]_vars

\* the columns and the direction a sort stage typed as fs stands for
ExpectedCols(f) == IF f = F_sort_col THEN <<<<"f", "o", "o">>>> ELSE <<<<"f", "o", "o">>, <<"b", "a", "r">>>>

ExpectedDirection(f) == IF f \in {F_asc, F_ascending} THEN "Ascending" ELSE "Descending"

\* sort, an optional by, a column list and an optional direction keyword
SortShape(fs) ==
    /\ Len(fs) >= 2
    /\ Head(fs) = F_sort
    /\ LET rest == IF fs[2] = F_sort_by THEN Tail(Tail(fs)) ELSE Tail(fs)
       IN  /\ Len(rest) \in {1, 2}
           /\ rest[1] \in SortColFrags
           /\ Len(rest) = 2 => rest[2] \in SortDirFrags

\* C11: sort [by] IDENT(, IDENT)* followed by any one direction keyword
\* parses as a whole, asc and ascending giving Ascending, desc, dsc and
\* descending giving Descending, each keyword consumed entirely; without a
\* direction the direction is Ascending, without a column list sort_cols is
\* empty.
C11_SortDirections ==
    Parsed("operator") =>
        /\ typed = <<F_sort>> =>
              /\ out.ok
              /\ out.val.kind = "Sort"
              /\ out.val.sort_cols = <<>>
              /\ out.val.direction = "Ascending"
        /\ SortShape(typed) =>
              LET last == typed[Len(typed)]
                  cols == IF last \in SortDirFrags THEN typed[Len(typed) - 1] ELSE last
              IN  /\ out.ok
                  /\ out.pos = Len(input)
                  /\ out.val.kind = "Sort"
                  /\ out.val.sort_cols = ExpectedCols(cols)
                  /\ out.val.direction =
                        IF last \in SortDirFrags THEN ExpectedDirection(last)
                        ELSE "Ascending"

----------------------------------------------------------------------------
(* Source spans *)

MaxSpanFrags == 4

F_star_pipe == <<"*", " ", "|">>
F_pipe == <<" ", "|">>
F_json_stage == <<" ", "j", "s", "o", "n">>
F_limit_stage == <<"\t", "l", "i", "m", "i", "t", " ", "5", " ">>
F_limit_bare == <<" ", "l", "i", "m", "i", "t">>
F_where_stage == <<" ", "w", "h", "e", "r", "e", " ", "a", " ", "=", "=", " ", "b">>
F_where_bare == <<" ", "w", "h", "e", "r", "e">>
F_distinct_stage == <<" ", "c", "o", "u", "n", "t", "_", "d", "i", "s", "t", "i", "n", "c", "t", "(", "a", ",", " ", "b", ")">>
F_distinct_empty == <<" ", "c", "o", "u", "n", "t", "_", "d", "i", "s", "t", "i", "n", "c", "t", "(", ")">>
F_aggs_stage == <<" ", "p", "5", "0", "(", "x", ")", ",", " ", "c", "o", "u", "n", "t">>

SpanFrags == {F_star_pipe, F_pipe, F_json_stage, F_limit_stage, F_limit_bare,
              F_where_stage, F_where_bare, F_distinct_stage, F_distinct_empty,
              F_aggs_stage, F_newline}

TypeSpan == \E f \in SpanFrags : Type(f, MaxSpanFrags)

NextSpan == TypeSpan \/ ParseQuery

SpecSpan == Init /\ [][NextSpan]_vars

Span(p) == <<p.start_pos, p.end_pos>>

\* the span of an optional Positioned value
OptSpan(o) == IF o = Nil THEN {} ELSE {Span(o[1])}

\* the spans of the Positioned values of one stage
SpansOf(op) ==
    CASE op.kind = "Inline" ->
           {Span(op.inline)} \cup
             (CASE op.inline.value.op = "Where" -> OptSpan(op.inline.value.expr)
                [] op.inline.value.op = "Limit" -> OptSpan(op.inline.value.count)
                [] OTHER -> {})
      [] op.kind = "MultiAggregate" ->
           UNION {LET f == op.aggregate_functions[k][2]
                  IN  {Span(f)} \cup
                        (IF f.value.fn = "CountDistinct" THEN OptSpan(f.value.column)
                         ELSE {})
                  : k \in DOMAIN op.aggregate_functions}
      [] OTHER -> {}

AllSpans(q) == UNION {SpansOf(q.operators[k]) : k \in DOMAIN q.operators}

\* C12: every Positioned value of a returned AST has
\* 0 <= start_pos <= end_pos <= length of the input, and start_pos = end_pos
\* only when the wrapped rule consumed nothing; each wrapped rule consumes
\* at least its keyword, literal or parenthesis, so no span is empty.
C12_SpansWithinInput ==
    Parsed("query") /\ out.ok =>
        \A span \in AllSpans(out.val) :
            /\ 0 <= span[1]
            /\ span[1] <= span[2]
            /\ span[2] <= Len(input)
            /\ span[1] # span[2]

\* a where stage with its expression and a count_distinct with its arguments
C12_Witness ==
    /\ Parsed("query")
    /\ out.ok
    /\ typed = <<F_star_pipe, F_where_stage, F_pipe, F_distinct_stage>>
    /\ AllSpans(out.val) = {<<4, 17>>, <<10, 17>>, <<19, 39>>, <<33, 39>>}

----------------------------------------------------------------------------
(* Expressions *)

MaxExprFrags == 3

F_atom_column == <<"a">>
F_atom_string == <<"'", "s", "'">>
F_atom_number == <<"7">>
F_atom_paren == <<"(", "b", ")">>
F_op_eq == <<"=", "=">>
F_op_neq == <<" ", "!", "=", " ">>
F_op_lt == <<"<">>
F_op_lte == <<" ", "<", "=">>
F_op_gt == <<">", " ">>
F_op_gte == <<">", "=">>
F_not == <<"!">>

AtomFrags == {F_atom_column, F_atom_string, F_atom_number, F_atom_paren}

CompOpFrags == {F_op_eq, F_op_neq, F_op_lt, F_op_lte, F_op_gt, F_op_gte}

ExprFrags == AtomFrags \cup CompOpFrags \cup {F_not}

TypeExpr == \E f \in ExprFrags : Type(f, MaxExprFrags)

ParseExpr == Apply("expr")

NextExpr == TypeExpr \/ ParseExpr

SpecExpr == Init /\ [][NextExpr]_vars

\* the expression an atom as written stands for
ExpectedAtom(f) ==
    CASE f = F_atom_column -> [t |-> "Column", name |-> <<"a">>]
      [] f = F_atom_string -> [t |-> "Value", v |-> [vt |-> "Str", str |-> <<"s">>]]
      [] f = F_atom_number -> [t |-> "Value", v |-> from_string(<<"7">>)]
      [] f = F_atom_paren -> [t |-> "Column", name |-> <<"b">>]

\* the ComparisonOp an operator as written stands for
ExpectedOp(f) ==
    CASE f = F_op_eq -> "Eq"
      [] f = F_op_neq -> "Neq"
      [] f = F_op_lt -> "Lt"
      [] f = F_op_lte -> "Lte"
      [] f = F_op_gt -> "Gt"
      [] f = F_op_gte -> "Gte"

BinaryShape ==
    Len(typed) = 3 /\ typed[1] \in AtomFrags /\ typed[2] \in CompOpFrags
                   /\ typed[3] \in AtomFrags

UnaryShape == Len(typed) = 2 /\ typed[1] = F_not /\ typed[2] \in AtomFrags

\* C13: expr is the ordered choice binary, unary, atom: atom op atom gives
\* Binary with the ComparisonOp of op (== Eq, != Neq, < Lt, <= Lte, > Gt,
\* >= Gte) and is consumed entirely, ! atom gives Unary Not, and a bare
\* Column or Value is returned only when neither of the two matches.
C13_ExprOrderedChoice ==
    Parsed("expr") =>
        /\ BinaryShape =>
              /\ out.ok
              /\ out.pos = Len(input)
              /\ out.val = [t |-> "Binary", op |-> ExpectedOp(typed[2]),
                            left |-> ExpectedAtom(typed[1]),
                            right |-> ExpectedAtom(typed[3])]
        /\ UnaryShape =>
              /\ out.ok
              /\ out.pos = Len(input)
              /\ out.val = [t |-> "Unary", op |-> "Not",
                            operand |-> ExpectedAtom(typed[2])]
        /\ Len(typed) = 1 /\ typed[1] \in AtomFrags =>
              out.ok /\ out.pos = Len(input) /\ out.val = ExpectedAtom(typed[1])
        /\ out.ok /\ out.val.t \in {"Column", "Value"} => ~BinaryShape /\ ~UnaryShape

\* 's' <= (b)
C13_Witness ==
    /\ Parsed("expr")
    /\ typed = <<F_atom_string, F_op_lte, F_atom_paren>>
    /\ out.ok
    /\ out.val.t = "Binary"
    /\ out.val.op = "Lte"
    /\ out.pos = Len(input)

----------------------------------------------------------------------------
(* Limit stages *)

MaxLimitFrags == 4

F_limit == <<"l", "i", "m", "i", "t">>
F_tab == <<"\t">>
F_lit_unsigned == <<"5">>
F_lit_negative == <<"-", "5">>
F_lit_exponent == <<"1", "e", "2">>
F_lit_fraction == <<".", "5">>

LimitSepFrags == {F_space, F_tab, F_newline}

LimitLiteralFrags == {F_lit_unsigned, F_lit_negative, F_lit_exponent, F_lit_fraction}

LimitFrags == LimitSepFrags \cup LimitLiteralFrags \cup {F_limit}

TypeLimit == \E f \in LimitFrags : Type(f, MaxLimitFrags)

NextLimit == TypeLimit \/ ParseOperator

SpecLimit == Init /\ [][NextLimit]_vars

\* limit alone, or followed by whitespace only
LimitBareShape ==
    /\ typed # <<>>
    /\ Head(typed) = F_limit
    /\ \A k \in 2..Len(typed) : typed[k] \in LimitSepFrags

\* limit, whitespace, a literal and possibly whitespace after it
LimitLiteralShape ==
    /\ Len(typed) \in {3, 4}
    /\ typed[1] = F_limit
    /\ typed[2] \in LimitSepFrags
    /\ typed[3] \in LimitLiteralFrags
    /\ Len(typed) = 4 => typed[4] \in LimitSepFrags

\* C14: limit parses without a number and with an unsigned, negative or
\* exponent literal; count is absent exactly when no literal follows limit,
\* and the span of a present count starts at the first character of the
\* literal, ends right after its last one and lies inside the span of the
\* Limit operator.
C14_LimitCount ==
    Parsed("operator") =>
        /\ LimitBareShape =>
              /\ out.ok
              /\ out.pos = Len(input)
              /\ out.val.inline.value.op = "Limit"
              /\ out.val.inline.value.count = Nil
        /\ LimitLiteralShape =>
              /\ out.ok
              /\ out.pos = Len(input)
              /\ out.val.inline.value.op = "Limit"
              /\ out.val.inline.value.count # Nil
              /\ LET number == out.val.inline.value.count[1]
                     first == Len(typed[1]) + Len(typed[2])
                 IN  /\ number.start_pos = first
                     /\ number.end_pos = first + Len(typed[3])
                     /\ out.val.inline.start_pos <= number.start_pos
                     /\ number.end_pos <= out.val.inline.end_pos

\* limit, a newline, 1e2 and a space
C14_Witness ==
    /\ Parsed("operator")
    /\ typed = <<F_limit, F_newline, F_lit_exponent, F_space>>
    /\ out.ok
    /\ out.val.inline.value.count # Nil
    /\ out.val.inline.value.count[1].start_pos = 6
    /\ out.val.inline.value.count[1].end_pos = 9
    /\ out.val.inline.end_pos = 10

----------------------------------------------------------------------------
(* Whitespace in front of a stage *)

MaxLeadFrags == 4

F_stage_json == <<"j", "s", "o", "n">>
F_stage_limit == <<"l", "i", "m", "i", "t", " ", "5">>
F_stage_where == <<"w", "h", "e", "r", "e", " ", "a", " ", "=", "=", " ", "b">>
F_stage_total == <<"t", "o", "t", "a", "l", "(", "x", ")">>

LeadStageFrags == {F_stage_json, F_stage_limit, F_stage_where, F_stage_total}

LeadFrags == LeadStageFrags \cup LimitSepFrags \cup {F_star_pipe}

TypeLead == \E f \in LeadFrags : Type(f, MaxLeadFrags)

NextLead == TypeLead \/ ParseOperator \/ ParseQuery

SpecLead == Init /\ [][NextLead]_vars

\* whitespace fragments only, then one stage
LeadShape(fs) ==
    /\ fs # <<>>
    /\ fs[Len(fs)] \in LeadStageFrags
    /\ \A k \in 1..(Len(fs) - 1) : fs[k] \in LimitSepFrags

\* the offset of the first character of the keyword of the stage typed last
KeywordOffset == Len(input) - Len(typed[Len(typed)])

\* C15: a Positioned inline operator returned by operator has the offset of
\* the first character of its keyword as start_pos, whatever spaces, tabs
\* and newlines precede the keyword. Spaces and tabs are skipped by
\* operator itself; in front of a newline operator returns nothing, and a
\* query skips the newlines in front of its first stage before operator
\* starts.
C15_StartAtKeyword ==
    /\ Parsed("operator") /\ LeadShape(typed) =>
          /\ out.ok => /\ out.val.kind = "Inline"
                       /\ out.val.inline.start_pos = KeywordOffset
          /\ out.ok <=> \A k \in 1..(Len(typed) - 1) : typed[k] # F_newline
          /\ ~out.ok => FatalKind(out) = "NotAnOperator"
    /\ Parsed("query") /\ typed # <<>> /\ Head(typed) = F_star_pipe
                       /\ LeadShape(Tail(typed)) =>
          /\ out.ok
          /\ out.val.operators[1].kind = "Inline"
          /\ out.val.operators[1].inline.start_pos = KeywordOffset

\* a tab and two spaces in front of where
C15_Witness ==
    /\ Parsed("operator")
    /\ typed = <<F_tab, F_space, F_space, F_stage_where>>
    /\ out.ok
    /\ out.val.inline.start_pos = 3

\* a newline in front of the first stage of a query
C15_WitnessNewline ==
    /\ Parsed("query")
    /\ typed = <<F_star_pipe, F_newline, F_space, F_stage_json>>
    /\ out.ok
    /\ out.val.operators[1].inline.start_pos = 5

----------------------------------------------------------------------------
(* Recognised operator names and what follows them *)

MaxKnownFrags == 3

KnownNameFrags == {<<"p", "a", "r", "s", "e">>, <<"f", "i", "e", "l", "d", "s">>, <<"t", "o", "t", "a", "l">>, <<"l", "i", "m", "i", "t">>, <<"j", "s", "o", "n">>,
                   <<"w", "h", "e", "r", "e">>, <<"s", "o", "r", "t">>, <<"c", "o", "u", "n", "t">>, <<"s", "u", "m">>}

KnownRestFrags == {<<" ", "f", "o", "o">>, <<" ", "x">>, F_arg, F_space, <<" ", "\"", "p", "\"", " ", "a", "s", " ", "v">>}

KnownFrags == KnownNameFrags \cup KnownRestFrags

TypeKnown == \E f \in KnownFrags : Type(f, MaxKnownFrags)

NextKnown == TypeKnown \/ ParseOperator

SpecKnown == Init /\ [][NextKnown]_vars

\* the lookahead of operator accepts the token the text starts with, and the
\* token is a whitelisted operator name
LookaheadAccepts(s) ==
    /\ Rule("did_you_mean_operator", s, 0).ok
    /\ UpcomingToken(s) \in OperatorNames

\* C16: once the lookahead of operator has accepted the upcoming token as a
\* whitelisted operator name, operator never fails with NotAnOperator or
\* NotAnAggregateOperator, whatever follows the name: parse foo, fields
\* without a column or total x are not reported as unknown names.
C16_KnownNameNotUnknown ==
    Parsed("operator") /\ LookaheadAccepts(input)
        => FatalKind(out) \notin {"NotAnOperator", "NotAnAggregateOperator"}

====
